---------------------------- MODULE Spec2Model ----------------------------
(***************************************************************************)
(* Model of sailfish's runtime rendering layer (src/runtime/render.rs):    *)
(* the Render trait with its default render_escaped, and the built-in      *)
(* implementations for str, &str, String, char, &Path, PathBuf, bool, the  *)
(* integer family and the float family.                                    *)
(*                                                                         *)
(* A character is a one-character string; a text and a Buffer's content    *)
(* are sequences of characters.  Every render function is an operator that *)
(* takes the value and the buffer content and gives the record             *)
(*   [buf, res, tmp, esc]                                                  *)
(* holding the buffer content afterwards, the fmt::Result returned, and    *)
(* whether the call allocated a temporary Buffer and whether it went       *)
(* through escape::escape_to_buf.                                          *)
(***************************************************************************)
EXTENDS Integers, Sequences, FiniteSets, TLC

VARIABLES
    b,          \* content of the destination Buffer
    before,     \* content of the destination Buffer when the last call started
    last,       \* the last call: [op, ty, val, res, tmp, esc, alone]
    expected,   \* concatenation of what each successful call writes to an empty Buffer
    ncalls      \* number of calls made on the Buffer

vars == <<b, before, last, expected, ncalls>>

\* ------------------------------------------------------------------ bounds

\* Calls made on one Buffer in the mixed specification.
MaxCalls == 2

\* Longest text enumerated in the text specification.
MaxLen == 3

\* ------------------------------------------------------------- characters

QUOT == "\""
AMP  == "&"
LT   == "<"
GT   == ">"
APOS == "'"

\* U+FFFD, what to_string_lossy puts in place of an invalid sequence.
REPLACEMENT_CHARACTER == "U+FFFD"

\* A unit of a path that is not valid Unicode.
INVALID_UNIT == "0xFF"

\* The characters texts and chars are drawn from: the four markup characters,
\* the single quote, and two plain ones.
Alphabet == {QUOT, AMP, LT, GT, APOS, "a", " "}

\* All texts over alphabet A of length at most n.
TextsUpTo(A, n) == UNION {[1..k -> A] : k \in 0..n}

\* ----------------------------------------------------------------- Buffer

Buffer_new == <<>>

write_str(buf, s) == buf \o s

write_char(buf, c) == Append(buf, c)

as_str(buf) == buf

\* ----------------------------------------------------------------- escape

\* The mapping of escape::escape_to_buf: the four characters it is stated to
\* replace.  Every other character, the single quote among them, is copied
\* as it is.
ESCAPED(c) ==
    CASE c = QUOT -> <<"&", "q", "u", "o", "t", ";">>
      [] c = AMP  -> <<"&", "a", "m", "p", ";">>
      [] c = LT   -> <<"&", "l", "t", ";">>
      [] c = GT   -> <<"&", "g", "t", ";">>

ESCAPE_LUT == {QUOT, AMP, LT, GT}

RECURSIVE escape_scan(_, _, _)
escape_scan(feed, i, buf) ==
    IF i > Len(feed) THEN buf
    ELSE escape_scan(feed, i + 1,
                     IF feed[i] \in ESCAPE_LUT
                     THEN write_str(buf, ESCAPED(feed[i]))
                     ELSE write_char(buf, feed[i]))

escape_to_buf(feed, buf) == escape_scan(feed, 1, buf)

\* ---------------------------------------------------------------- results

Ok(buf, tmp, esc) == [buf |-> buf, res |-> "Ok", tmp |-> tmp, esc |-> esc]

Err(buf, tmp, esc) == [buf |-> buf, res |-> "Err", tmp |-> tmp, esc |-> esc]

\* ------------------------------------------------------- the Render trait

\* A type that implements only render.  Its render writes `wrote` characters
\* of its text and then either has written all of it and returns Ok, or
\* returns Err.
UserValue(text, fails, wrote) == [text |-> text, fails |-> fails, wrote |-> wrote]

user_render(self, buf) ==
    IF self.fails
    THEN Err(write_str(buf, SubSeq(self.text, 1, self.wrote)), FALSE, FALSE)
    ELSE Ok(write_str(buf, self.text), FALSE, FALSE)

\* Mutants of the default render_escaped: the temporary Buffer replaces the
\* destination; the value is rendered straight into the destination; the
\* temporary Buffer starts as a copy of the destination.
Render_render_escaped_replace(self, buf) ==
    LET r == user_render(self, Buffer_new)
    IN  IF r.res = "Err" THEN Err(buf, TRUE, FALSE) ELSE Ok(as_str(r.buf), TRUE, FALSE)

Render_render_escaped_direct(self, buf) ==
    LET r == user_render(self, buf)
    IN  IF r.res = "Err" THEN Err(r.buf, FALSE, FALSE) ELSE Ok(r.buf, FALSE, FALSE)

Render_render_escaped_stale(self, buf) ==
    LET r == user_render(self, buf)
    IN  IF r.res = "Err"
        THEN Err(buf, TRUE, FALSE)
        ELSE Ok(write_str(buf, as_str(r.buf)), TRUE, FALSE)

Render_render_escaped(self, buf) ==
    LET tmp == Buffer_new
        r   == user_render(self, tmp)
    IN  IF r.res = "Err"
        THEN Err(buf, TRUE, FALSE)
        ELSE Ok(write_str(buf, as_str(r.buf)), TRUE, FALSE)

\* ------------------------------------------------------ str, &str, String

str_render(self, buf) == Ok(write_str(buf, self), FALSE, FALSE)

str_render_escaped(self, buf) == Ok(escape_to_buf(self, buf), FALSE, TRUE)

ref_str_render(self, buf) == Ok(write_str(buf, self), FALSE, FALSE)

ref_str_render_escaped(self, buf) == Ok(escape_to_buf(self, buf), FALSE, TRUE)

String_render(self, buf) == Ok(write_str(buf, self), FALSE, FALSE)

\* Mutant: the String is written without escaping.
String_render_escaped_raw(self, buf) == Ok(write_str(buf, self), FALSE, FALSE)

String_render_escaped(self, buf) == Ok(escape_to_buf(self, buf), FALSE, TRUE)

\* ------------------------------------------------------------------- char

char_render(self, buf) == Ok(write_char(buf, self), FALSE, FALSE)

\* Mutants of the char switch: the arms of '<' and '>' swapped; the arm of
\* '>' missing.
char_render_escaped_swapped(self, buf) ==
    Ok(CASE self = QUOT -> write_str(buf, <<"&", "q", "u", "o", "t", ";">>)
         [] self = AMP  -> write_str(buf, <<"&", "a", "m", "p", ";">>)
         [] self = LT   -> write_str(buf, <<"&", "g", "t", ";">>)
         [] self = GT   -> write_str(buf, <<"&", "l", "t", ";">>)
         [] OTHER       -> write_char(buf, self),
       FALSE, FALSE)

char_render_escaped_no_gt(self, buf) ==
    Ok(CASE self = QUOT -> write_str(buf, <<"&", "q", "u", "o", "t", ";">>)
         [] self = AMP  -> write_str(buf, <<"&", "a", "m", "p", ";">>)
         [] self = LT   -> write_str(buf, <<"&", "l", "t", ";">>)
         [] OTHER       -> write_char(buf, self),
       FALSE, FALSE)

char_render_escaped(self, buf) ==
    Ok(CASE self = QUOT -> write_str(buf, <<"&", "q", "u", "o", "t", ";">>)
         [] self = AMP  -> write_str(buf, <<"&", "a", "m", "p", ";">>)
         [] self = LT   -> write_str(buf, <<"&", "l", "t", ";">>)
         [] self = GT   -> write_str(buf, <<"&", "g", "t", ";">>)
         [] OTHER       -> write_char(buf, self),
       FALSE, FALSE)

\* ---------------------------------------------------------- &Path, PathBuf

\* A path is a sequence of units, each a character or an invalid unit.
to_string_lossy(path) ==
    [i \in 1..Len(path) |->
        IF path[i] = INVALID_UNIT THEN REPLACEMENT_CHARACTER ELSE path[i]]

\* Mutant: a path that is not valid Unicode fails instead of being replaced.
ref_Path_render_strict(self, buf) ==
    IF \E i \in 1..Len(self) : self[i] = INVALID_UNIT
    THEN Err(buf, FALSE, FALSE)
    ELSE Ok(write_str(buf, self), FALSE, FALSE)

ref_Path_render(self, buf) == Ok(write_str(buf, to_string_lossy(self)), FALSE, FALSE)

ref_Path_render_escaped(self, buf) ==
    Ok(escape_to_buf(to_string_lossy(self), buf), FALSE, TRUE)

PathBuf_render(self, buf) == Ok(write_str(buf, to_string_lossy(self)), FALSE, FALSE)

PathBuf_render_escaped(self, buf) ==
    Ok(escape_to_buf(to_string_lossy(self), buf), FALSE, TRUE)

\* ------------------------------------------------------------------- bool

bool_render(self, buf) ==
    LET s == IF self THEN <<"t", "r", "u", "e">> ELSE <<"f", "a", "l", "s", "e">>
    IN  Ok(write_str(buf, s), FALSE, FALSE)

bool_render_escaped(self, buf) == bool_render(self, buf)

\* --------------------------------------------------------------- integers

IntTypes == {"u8", "u16", "u32", "u64", "i8", "i16", "i32", "i64", "usize", "isize"}

\* Width of an integer type in bytes (usize and isize on a 64-bit target).
Bytes(ty) ==
    CASE ty \in {"u8", "i8"}   -> 1
      [] ty \in {"u16", "i16"} -> 2
      [] ty \in {"u32", "i32"} -> 4
      [] OTHER                 -> 8

Signed(ty) == ty \in {"i8", "i16", "i32", "i64", "isize"}

\* An integer is its two's complement bit pattern: Bytes(ty) bytes, the most
\* significant first.
IsNegative(ty, n) == Signed(ty) /\ n[1] >= 128

IsZero(n) == \A i \in 1..Len(n) : n[i] = 0

\* n + c modulo 2^(8 * Len(n)), adding from the least significant byte at i.
RECURSIVE add_carry(_, _, _)
add_carry(n, i, c) ==
    IF i = 0 THEN n
    ELSE LET s == n[i] + c
         IN  add_carry([n EXCEPT ![i] = s % 256], i - 1, s \div 256)

\* (!n).wrapping_add(1)
wrapping_neg(n) == add_carry([i \in 1..Len(n) |-> 255 - n[i]], Len(n), 1)

\* Long division of n by the small number d from byte i on.
RECURSIVE div_step(_, _, _, _, _)
div_step(n, d, i, carry, q) ==
    IF i > Len(n) THEN [q |-> q, r |-> carry]
    ELSE LET cur == carry * 256 + n[i]
         IN  div_step(n, d, i + 1, cur % d, Append(q, cur \div d))

DivMod(n, d) == div_step(n, d, 1, 0, <<>>)

DigitChar(d) == <<"0", "1", "2", "3", "4", "5", "6", "7", "8", "9">>[d + 1]

\* The decimal digits of a magnitude, most significant first, none for zero.
RECURSIVE decimal_digits(_)
decimal_digits(n) ==
    IF IsZero(n) THEN <<>>
    ELSE LET qr == DivMod(n, 10)
         IN  Append(decimal_digits(qr.q), DigitChar(qr.r))

\* itoa::Buffer::format
\* Mutant: the magnitude of a negative number taken as !n, without the + 1.
itoa_format_not(ty, self) ==
    LET is_nonnegative == ~IsNegative(ty, self)
        n      == IF is_nonnegative THEN self ELSE [i \in 1..Len(self) |-> 255 - self[i]]
        digits == IF IsZero(n) THEN <<"0">> ELSE decimal_digits(n)
    IN  IF is_nonnegative THEN digits ELSE <<"-">> \o digits

itoa_format(ty, self) ==
    LET is_nonnegative == ~IsNegative(ty, self)
        n      == IF is_nonnegative THEN self ELSE wrapping_neg(self)
        digits == IF IsZero(n) THEN <<"0">> ELSE decimal_digits(n)
    IN  IF is_nonnegative THEN digits ELSE <<"-">> \o digits

int_render(ty, self, buf) ==
    LET s == itoa_format(ty, self)
    IN  Ok(write_str(buf, s), FALSE, FALSE)

\* Mutant: the integer takes the default path through a temporary Buffer.
int_render_escaped_fallback(ty, self, buf) ==
    LET r == int_render(ty, self, Buffer_new)
    IN  Ok(escape_to_buf(as_str(r.buf), buf), TRUE, TRUE)

int_render_escaped(ty, self, buf) == int_render(ty, self, buf)

\* ----------------------------------------------------------------- floats

FloatTypes == {"f32", "f64"}

\* A float is NaN, an infinity, a zero, or a finite value given by its sign
\* and its shortest round-tripping decimal: digits (no trailing zero) and a
\* power of ten k, the value being digits * 10^k.
Float(kind, neg, digits, k) == [kind |-> kind, neg |-> neg, digits |-> digits, k |-> k]

Zeros(n) == [i \in 1..n |-> "0"]

RECURSIVE nat_digits(_)
nat_digits(n) ==
    IF n < 10 THEN <<DigitChar(n)>>
    ELSE Append(nat_digits(n \div 10), DigitChar(n % 10))

write_exponent(e) == IF e < 0 THEN <<"-">> \o nat_digits(-e) ELSE nat_digits(e)

\* Largest decimal point position written without an exponent.
MaxPlain(ty) == IF ty = "f32" THEN 13 ELSE 16

\* Smallest decimal point position written without an exponent, less one.
MinPlain(ty) == IF ty = "f32" THEN -6 ELSE -5

\* ryu::Buffer::format
ryu_format(ty, self) ==
    LET sign   == IF self.neg THEN <<"-">> ELSE <<>>
        ds     == [i \in 1..Len(self.digits) |-> DigitChar(self.digits[i])]
        length == Len(ds)
        k      == self.k
        kk     == length + k
    IN  CASE self.kind = "nan"  -> <<"N", "a", "N">>
          [] self.kind = "inf"  -> sign \o <<"i", "n", "f">>
          [] self.kind = "zero" -> sign \o <<"0", ".", "0">>
          [] OTHER ->
               sign \o
               (CASE 0 <= k /\ kk <= MaxPlain(ty) -> ds \o Zeros(k) \o <<".", "0">>
                  [] 0 < kk /\ kk <= MaxPlain(ty) /\ k < 0 ->
                       SubSeq(ds, 1, kk) \o <<".">> \o SubSeq(ds, kk + 1, length)
                  [] MinPlain(ty) < kk /\ kk <= 0 -> <<"0", ".">> \o Zeros(-kk) \o ds
                  [] OTHER ->
                       IF length = 1
                       THEN ds \o <<"e">> \o write_exponent(kk - 1)
                       ELSE <<ds[1], ".">> \o SubSeq(ds, 2, length) \o <<"e">>
                            \o write_exponent(kk - 1))

float_render(ty, self, buf) ==
    LET s == ryu_format(ty, self)
    IN  Ok(write_str(buf, s), FALSE, FALSE)

float_render_escaped(ty, self, buf) == float_render(ty, self, buf)

\* ------------------------------------------------------------------ state

Init ==
    /\ b = Buffer_new
    /\ before = Buffer_new
    /\ last = [op |-> "none", ty |-> "none", val |-> <<>>, res |-> "Ok",
               tmp |-> FALSE, esc |-> FALSE, alone |-> <<>>]
    /\ expected = <<>>
    /\ ncalls = 0

\* One call on the destination Buffer: r is what the called function gives on
\* the Buffer as it is, alone what it gives on an empty Buffer.
Call(op, ty, val, r, alone) ==
    /\ ncalls < MaxCalls
    /\ b' = r.buf
    /\ before' = b
    /\ last' = [op |-> op, ty |-> ty, val |-> val, res |-> r.res,
                tmp |-> r.tmp, esc |-> r.esc, alone |-> alone.buf]
    /\ expected' = IF r.res = "Ok" THEN expected \o alone.buf ELSE expected
    /\ ncalls' = ncalls + 1

\* ---------------------------------------------------------------- actions

UserRenderEscaped(u) ==
    Call("render_escaped", "user", u,
         Render_render_escaped(u, b), Render_render_escaped(u, Buffer_new))

StrRender(s) ==
    Call("render", "str", s, str_render(s, b), str_render(s, Buffer_new))

StrRenderEscaped(s) ==
    Call("render_escaped", "str", s,
         str_render_escaped(s, b), str_render_escaped(s, Buffer_new))

RefStrRender(s) ==
    Call("render", "&str", s, ref_str_render(s, b), ref_str_render(s, Buffer_new))

RefStrRenderEscaped(s) ==
    Call("render_escaped", "&str", s,
         ref_str_render_escaped(s, b), ref_str_render_escaped(s, Buffer_new))

StringRender(s) ==
    Call("render", "String", s, String_render(s, b), String_render(s, Buffer_new))

StringRenderEscaped(s) ==
    Call("render_escaped", "String", s,
         String_render_escaped(s, b), String_render_escaped(s, Buffer_new))

CharRender(c) ==
    Call("render", "char", c, char_render(c, b), char_render(c, Buffer_new))

CharRenderEscaped(c) ==
    Call("render_escaped", "char", c,
         char_render_escaped(c, b), char_render_escaped(c, Buffer_new))

RefPathRender(p) ==
    Call("render", "&Path", p, ref_Path_render(p, b), ref_Path_render(p, Buffer_new))

RefPathRenderEscaped(p) ==
    Call("render_escaped", "&Path", p,
         ref_Path_render_escaped(p, b), ref_Path_render_escaped(p, Buffer_new))

PathBufRender(p) ==
    Call("render", "PathBuf", p, PathBuf_render(p, b), PathBuf_render(p, Buffer_new))

PathBufRenderEscaped(p) ==
    Call("render_escaped", "PathBuf", p,
         PathBuf_render_escaped(p, b), PathBuf_render_escaped(p, Buffer_new))

BoolRender(v) ==
    Call("render", "bool", v, bool_render(v, b), bool_render(v, Buffer_new))

BoolRenderEscaped(v) ==
    Call("render_escaped", "bool", v,
         bool_render_escaped(v, b), bool_render_escaped(v, Buffer_new))

IntRender(ty, n) ==
    Call("render", ty, n, int_render(ty, n, b), int_render(ty, n, Buffer_new))

IntRenderEscaped(ty, n) ==
    Call("render_escaped", ty, n,
         int_render_escaped(ty, n, b), int_render_escaped(ty, n, Buffer_new))

FloatRender(ty, f) ==
    Call("render", ty, f, float_render(ty, f, b), float_render(ty, f, Buffer_new))

FloatRenderEscaped(ty, f) ==
    Call("render_escaped", ty, f,
         float_render_escaped(ty, f, b), float_render_escaped(ty, f, Buffer_new))

\* ----------------------------------------------------------------- inputs

\* Texts of the mixed specification.
SomeTexts == {<<>>, <<"a">>, <<"a", AMP>>, <<LT, APOS>>}

\* Every text over the alphabet up to MaxLen, and the text `Tom & Jerry`.
TomAndJerry == <<"T", "o", "m", " ", "&", " ", "J", "e", "r", "r", "y">>

AllTexts == TextsUpTo(Alphabet, MaxLen) \cup {TomAndJerry}

SomePaths == {<<"/", "a">>, <<"a", INVALID_UNIT, GT>>}

\* Values of a type that implements only render: one whose render succeeds,
\* and ones whose render fails before or after writing a part of the text.
SomeUserValues ==
    {UserValue(t, f, w) : t \in {<<"a", AMP>>, <<LT>>}, f \in {FALSE}, w \in {0}}
    \cup {UserValue(<<"a", AMP>>, TRUE, w) : w \in {0, 1}}

\* The bytes of the edge cases of every width: 0, 1, 9, 10, 42, 99, 100, the
\* largest positive and the smallest negative top byte, -42's low byte, all ones.
EdgeBytes == {0, 1, 9, 10, 42, 99, 100, 127, 128, 214, 255}

\* Bit patterns of width n bytes: every byte for one byte, else an edge byte
\* at each end and one repeated byte between.
Patterns(n) ==
    IF n = 1 THEN {<<x>> : x \in 0..255}
    ELSE {[i \in 1..n |-> IF i = 1 THEN hi ELSE IF i = n THEN lo ELSE mid] :
             hi \in EdgeBytes, lo \in EdgeBytes, mid \in {0, 127, 255}}

AllInts == UNION {{<<ty, n>> : n \in Patterns(Bytes(ty))} : ty \in IntTypes}

SomeInts ==
    { <<"u8", <<255>>>>, <<"i8", <<128>>>>,
      <<"i64", <<255, 255, 255, 255, 255, 255, 255, 214>>>>,
      <<"u32", <<0, 0, 0, 0>>>>, <<"i16", <<0, 42>>>>,
      <<"usize", <<0, 0, 0, 0, 0, 0, 1, 0>>>> }

SomeFloats ==
    { <<"f64", Float("finite", FALSE, <<2>>, 0)>>,
      <<"f64", Float("finite", FALSE, <<1>>, -1)>>,
      <<"f32", Float("finite", TRUE, <<4, 2, 5>>, -1)>>,
      <<"f64", Float("finite", FALSE, <<1, 2, 3, 4>>, 30)>>,
      <<"f32", Float("finite", FALSE, <<1, 5>>, -8)>>,
      <<"f64", Float("nan", FALSE, <<>>, 0)>>,
      <<"f32", Float("inf", TRUE, <<>>, 0)>>,
      <<"f64", Float("zero", TRUE, <<>>, 0)>> }

\* --------------------------------------------------------- specifications

\* Calls of every kind, in any order, on one Buffer.
Next ==
    \/ \E u \in SomeUserValues : UserRenderEscaped(u)
    \/ \E s \in SomeTexts : StrRender(s)
    \/ \E s \in SomeTexts : StrRenderEscaped(s)
    \/ \E s \in SomeTexts : RefStrRender(s)
    \/ \E s \in SomeTexts : RefStrRenderEscaped(s)
    \/ \E s \in SomeTexts : StringRender(s)
    \/ \E s \in SomeTexts : StringRenderEscaped(s)
    \/ \E c \in Alphabet : CharRender(c)
    \/ \E c \in Alphabet : CharRenderEscaped(c)
    \/ \E p \in SomePaths : RefPathRender(p)
    \/ \E p \in SomePaths : RefPathRenderEscaped(p)
    \/ \E p \in SomePaths : PathBufRender(p)
    \/ \E p \in SomePaths : PathBufRenderEscaped(p)
    \/ \E v \in BOOLEAN : BoolRender(v)
    \/ \E v \in BOOLEAN : BoolRenderEscaped(v)
    \/ \E i \in SomeInts : IntRender(i[1], i[2])
    \/ \E i \in SomeInts : IntRenderEscaped(i[1], i[2])
    \/ \E f \in SomeFloats : FloatRender(f[1], f[2])
    \/ \E f \in SomeFloats : FloatRenderEscaped(f[1], f[2])

Spec == Init /\ [][Next]_vars

\* Text calls: every text in the last call on the Buffer, a few before it.
TextsNow == IF ncalls + 1 < MaxCalls THEN SomeTexts ELSE AllTexts

NextText ==
    \/ ncalls < MaxCalls /\ \E s \in TextsNow : StrRender(s)
    \/ ncalls < MaxCalls /\ \E s \in TextsNow : StrRenderEscaped(s)
    \/ ncalls < MaxCalls /\ \E s \in TextsNow : RefStrRender(s)
    \/ ncalls < MaxCalls /\ \E s \in TextsNow : RefStrRenderEscaped(s)
    \/ ncalls < MaxCalls /\ \E s \in TextsNow : StringRender(s)
    \/ ncalls < MaxCalls /\ \E s \in TextsNow : StringRenderEscaped(s)

SpecText == Init /\ [][NextText]_vars

\* Integer calls: one call on an empty Buffer, over the bit patterns of every width.
NextInt ==
    \/ ncalls = 0 /\ \E i \in AllInts : IntRender(i[1], i[2])
    \/ ncalls = 0 /\ \E i \in AllInts : IntRenderEscaped(i[1], i[2])

SpecInt == Init /\ [][NextInt]_vars

\* ----------------------------------------------------------------- claims

TextTypes == {"str", "&str", "String"}

PathTypes == {"&Path", "PathBuf"}

BuiltIn == TextTypes \cup PathTypes \cup {"char", "bool"} \cup IntTypes \cup FloatTypes

IsPrefix(p, s) == Len(p) <= Len(s) /\ SubSeq(s, 1, Len(p)) = p

\* What the last call appended, when the old content is still a prefix.
Appended == SubSeq(b, Len(before) + 1, Len(b))

\* The entity form of a markup character, the character itself otherwise.
EntityForm(c) ==
    IF c = "\"" THEN <<"&", "q", "u", "o", "t", ";">>
    ELSE IF c = "&" THEN <<"&", "a", "m", "p", ";">>
    ELSE IF c = "<" THEN <<"&", "l", "t", ";">>
    ELSE IF c = ">" THEN <<"&", "g", "t", ";">>
    ELSE <<c>>

\* A text with every character replaced by its entity form, in order.
RECURSIVE Entities(_)
Entities(t) == IF t = <<>> THEN <<>> ELSE EntityForm(Head(t)) \o Entities(Tail(t))

\* C1: the default render_escaped appends exactly the escaped form of the
\* text render produces, as escape_to_buf applied to that text would.
C1_DefaultEscapes ==
    (last.ty = "user" /\ last.res = "Ok") =>
        /\ b = escape_to_buf(user_render(last.val, Buffer_new).buf, before)
        /\ b = before \o Entities(last.val.text)

\* C2: the Buffer content before a call is a prefix of the content after it.
C2_AppendOnly == IsPrefix(before, b)

C2_Witness ==
    /\ last.ty = "user" /\ last.res = "Ok"
    /\ before # <<>>
    /\ Len(b) > Len(before)

\* C3: a call appends all of its output or nothing; when the render inside
\* the default render_escaped fails, the call returns the failure and leaves
\* the destination as it was.
C3_AllOrNothing ==
    /\ (last.ty = "user" /\ last.val.fails) => (last.res = "Err" /\ b = before)
    /\ last.res = "Err" => b = before
    /\ last.res = "Ok" => b = before \o last.alone

C3_Witness ==
    /\ last.ty = "user" /\ last.val.fails /\ last.val.wrote > 0
    /\ last.res = "Err"
    /\ before # <<>>

\* C4: render and render_escaped of a built-in type return Ok; an Err is one
\* a user type's render returned, passed on by the default render_escaped.
C4_BuiltInNeverFails ==
    /\ last.ty \in BuiltIn => last.res = "Ok"
    /\ last.res = "Err" =>
          (last.ty = "user" /\ last.op = "render_escaped" /\ last.val.fails)

C4_Witness ==
    /\ last.ty \in PathTypes /\ last.op = "render"
    /\ \E i \in 1..Len(last.val) : last.val[i] = INVALID_UNIT
    /\ last.res = "Ok"
    /\ Appended = <<"a", REPLACEMENT_CHARACTER, ">">>

\* C5: render_escaped of a char appends &quot; &amp; &lt; &gt; for the four
\* markup characters and the character itself otherwise; render of a char
\* appends the character.
C5_CharEscaping ==
    last.ty = "char" =>
        /\ last.op = "render" => b = before \o <<last.val>>
        /\ last.op = "render_escaped" => b = before \o EntityForm(last.val)

C5_Witness ==
    /\ last.ty = "char" /\ last.op = "render_escaped" /\ last.val = "<"
    /\ before # <<>>
    /\ Appended = <<"&", "l", "t", ";">>

C7_NoOpEscape ==
    (last.op = "render_escaped" /\ last.ty \in {"bool"} \cup IntTypes \cup FloatTypes) =>
        /\ b = (CASE last.ty = "bool"      -> bool_render(last.val, before)
                  [] last.ty \in IntTypes  -> int_render(last.ty, last.val, before)
                  [] OTHER                 -> float_render(last.ty, last.val, before)).buf
        /\ ~last.tmp
        /\ ~last.esc

C7_Witness ==
    /\ last.op = "render_escaped" /\ last.ty = "i64"
    /\ before # <<>>
    /\ Appended = <<"-", "4", "2">>

\* Parsing a decimal text as an integer type, as str::parse does: an optional
\* sign, then digits; the value must fit the type.
IsDigit(c) == \E d \in 0..9 : DigitChar(d) = c

DigitValue(c) == CHOOSE d \in 0..9 : DigitChar(d) = c

RECURSIVE mul_add(_, _, _, _)
mul_add(n, m, i, c) ==
    IF i = 0 THEN [v |-> n, carry |-> c]
    ELSE LET s == n[i] * m + c
         IN  mul_add([n EXCEPT ![i] = s % 256], m, i - 1, s \div 256)

RECURSIVE parse_digits(_, _, _)
parse_digits(ds, i, acc) ==
    IF i > Len(ds) THEN [ok |-> TRUE, v |-> acc]
    ELSE LET r == mul_add(acc, 10, Len(acc), DigitValue(ds[i]))
         IN  IF r.carry # 0 THEN [ok |-> FALSE, v |-> acc]
             ELSE parse_digits(ds, i + 1, r.v)

ParseInt(ty, s) ==
    LET neg  == s # <<>> /\ s[1] = "-"
        ds   == IF s # <<>> /\ s[1] \in {"-", "+"} THEN Tail(s) ELSE s
        zero == [i \in 1..Bytes(ty) |-> 0]
        fail == [ok |-> FALSE, v |-> zero]
        min  == [i \in 1..Bytes(ty) |-> IF i = 1 THEN 128 ELSE 0]
    IN  IF ds = <<>> \/ (\E i \in 1..Len(ds) : ~IsDigit(ds[i])) THEN fail
        ELSE IF neg /\ ~Signed(ty) THEN fail
        ELSE LET m == parse_digits(ds, 1, zero)
             IN  IF ~m.ok THEN fail
                 ELSE IF ~Signed(ty) THEN m
                 ELSE IF neg
                      THEN IF m.v[1] < 128 \/ m.v = min
                           THEN [ok |-> TRUE, v |-> wrapping_neg(m.v)]
                           ELSE fail
                      ELSE IF m.v[1] < 128 THEN m ELSE fail

\* C8: render of an integer into an empty Buffer gives a '-' exactly when the
\* integer is negative, then decimal digits, and the text parses as the same
\* type to the same integer.
C8_IntRoundTrip ==
    (last.op = "render" /\ last.ty \in IntTypes /\ before = <<>>) =>
        LET neg == IsNegative(last.ty, last.val)
            ds  == IF neg THEN Tail(b) ELSE b
        IN  /\ b # <<>>
            /\ neg <=> b[1] = "-"
            /\ ds # <<>>
            /\ \A i \in 1..Len(ds) : IsDigit(ds[i])
            /\ ParseInt(last.ty, b) = [ok |-> TRUE, v |-> last.val]

C8_Witness ==
    /\ last.op = "render" /\ last.ty = "i64"
    /\ last.val = <<128, 0, 0, 0, 0, 0, 0, 0>>
    /\ b = <<"-", "9", "2", "2", "3", "3", "7", "2", "0", "3", "6", "8", "5", "4",
             "7", "7", "5", "8", "0", "8">>

C10_Concatenation ==
    /\ b = expected
    /\ last.res = "Ok" => b = before \o last.alone

C10_Witness ==
    /\ ncalls >= 2
    /\ last.res = "Ok" /\ last.op = "render_escaped" /\ last.ty = "user"
    /\ before # <<>> /\ before # last.alone
    /\ last.alone # <<>>

=============================================================================
